---- MODULE Spec2Model ----
(***************************************************************************)
(* eCredit (fidsolit/ecreditmobile): the row-level authorization layer of  *)
(* the loan app and the client handlers that write through it.             *)
(*                                                                         *)
(* The database keeps four tables (profiles, loans, payments,              *)
(* activity_log) under row level security.  Which policies are installed   *)
(* is itself state: the repository ships several SQL scripts that drop and *)
(* create policies, and the operator runs them in the SQL editor.  A       *)
(* request of a caller is decided by the policies installed at that time.  *)
(***************************************************************************)
EXTENDS Integers, Sequences, FiniteSets

(* ----------------------------- bounds --------------------------------- *)

NumUsers == 2
MaxLoans == 1
MaxPayments == 1
MaxActivity == 2
MaxInFlight == 2

Users == 1..NumUsers
\* auth.uid() of a request that carries no session is NULL
Anon == 0
Callers == Users \cup {Anon}
LoanIds == 1..MaxLoans
Sessions == {"deviceA", "deviceB"}
PaymentIds == 1..MaxPayments
\* a NULL loan_id of a payment row
NullLoan == 0

Tables == {"profiles", "loans", "payments", "activity_log"}
LoanStatus == {"pending", "approved", "rejected", "active", "completed"}
\* a BOOLEAN column that may be NULL
Bool3 == {"TRUE", "FALSE", "NULL"}

VARIABLES
    installed,      \* the scripts whose policies are installed (pg_policies)
    req,            \* identity context of the last statement: role, auth.uid()
    profiles,       \* profiles table: one slot per identity id (primary key)
    loans,          \* loans table: one slot per loan id
    payments,       \* payments table: one slot per payment id
    activity_log,   \* activity_log table, in insertion order
    session,        \* App state `session` of each device: the signed-in user
    inflight,       \* checkAdminStatus queries of each device not yet answered
    isAdmin,        \* App state `isAdmin` of each device
    loansView,      \* AdminDashboard state `loans` of each device
    pc,             \* where each device is inside handleLoanAction
    cur,            \* the handleLoanAction call in flight on each device
    uploading,      \* Account state `uploading` of each device
    loanApplication,\* Account state `loanApplication`: the texts of the form
    account         \* the Account calls in flight on each device

vars == <<installed, req, profiles, loans, payments, activity_log,
          session, inflight, isAdmin, loansView, pc, cur,
          uploading, loanApplication, account>>
dbVars == <<installed, req, profiles, loans, payments, activity_log>>
dashVars == <<session, inflight, isAdmin, loansView, pc, cur>>
accountVars == <<uploading, loanApplication, account>>
uiVars == <<dashVars, accountVars>>

(* ------------------------------ rows ---------------------------------- *)

\* rows: how many rows of the table carry the id; the columns are those of
\* the one row there is
NoProfile ==
    [exists |-> FALSE, is_admin |-> "NULL", created_at |-> 0,
     full_name |-> "", credit_score |-> 0, rows |-> 0]
\* approval_date and disbursement_date hold the reading of the clock that a
\* handleLoanAction call took; a reading is told by the call that took it
NoLoan ==
    [exists |-> FALSE, user_id |-> Anon, status |-> "pending",
     approval_date |-> "NULL", disbursement_date |-> "NULL"]

\* a row as an insert that names user_id and status leaves it
NewLoan(owner, st) ==
    [exists |-> TRUE, user_id |-> owner, status |-> st,
     approval_date |-> "NULL", disbursement_date |-> "NULL"]
NoPayment == [exists |-> FALSE, loan_id |-> NullLoan]

\* profiles.is_admin BOOLEAN DEFAULT FALSE
IsAdminDefault == "FALSE"
\* loans.status TEXT DEFAULT 'pending' CHECK (status IN (...))
StatusCheck(st) == st \in LoanStatus

(* ---------------------------- policies -------------------------------- *)
(* A policy is its name, table, command, role list and the shape of its   *)
(* USING / WITH CHECK expression.                                          *)

Pol(n, t, c, r, q) == [name |-> n, tbl |-> t, cmd |-> c, to |-> r, qual |-> q]

\* database-schema.sql: owner-only policies, no UPDATE policy on loans
SchemaPolicies ==
    { Pol("Users can view own profile", "profiles", "SELECT", "public", "own_id"),
      Pol("Users can update own profile", "profiles", "UPDATE", "public", "own_id"),
      Pol("Users can insert own profile", "profiles", "INSERT", "public", "own_id"),
      Pol("Users can view own loans", "loans", "SELECT", "public", "own_user"),
      Pol("Users can insert own loans", "loans", "INSERT", "public", "own_user"),
      Pol("Users can view own payments", "payments", "SELECT", "public", "loan_own"),
      Pol("Users can view own activities", "activity_log", "SELECT", "public", "own_user"),
      Pol("Users can insert own activities", "activity_log", "INSERT", "public", "own_user") }

\* "Fix RLS Policies for Admin Dashboard Access": admin looked up by a
\* sub-select on profiles inside the policy
AdminFriendlyPolicies ==
    { Pol("Users can view own profile or admin can view all", "profiles", "SELECT", "public", "own_id_or_sub"),
      Pol("Users can update own profile or admin can update all", "profiles", "UPDATE", "public", "own_id_or_sub"),
      Pol("Users can insert own profile or admin can insert all", "profiles", "INSERT", "public", "own_id_or_sub"),
      Pol("Users can view own loans or admin can view all", "loans", "SELECT", "public", "own_user_or_sub"),
      Pol("Users can insert own loans or admin can insert all", "loans", "INSERT", "public", "own_user_or_sub"),
      Pol("Admin can update all loans", "loans", "UPDATE", "public", "sub"),
      Pol("Users can view own payments or admin can view all", "payments", "SELECT", "public", "loan_own_or_sub"),
      Pol("Admin can insert all payments", "payments", "INSERT", "public", "sub"),
      Pol("Users can view own activities or admin can view all", "activity_log", "SELECT", "public", "own_user_or_sub"),
      Pol("Users can insert own activities or admin can insert all", "activity_log", "INSERT", "public", "own_user_or_sub") }

\* fix-infinite-recursion.sql: admin looked up by is_admin_user()
RecursionFixPolicies ==
    { Pol("profiles_select_policy", "profiles", "SELECT", "public", "own_id_or_fn"),
      Pol("profiles_update_policy", "profiles", "UPDATE", "public", "own_id_or_fn"),
      Pol("profiles_insert_policy", "profiles", "INSERT", "public", "own_id_or_fn"),
      Pol("loans_select_policy", "loans", "SELECT", "public", "own_user_or_fn"),
      Pol("loans_update_policy", "loans", "UPDATE", "public", "own_user_or_fn"),
      Pol("loans_insert_policy", "loans", "INSERT", "public", "own_user_or_fn"),
      Pol("payments_select_policy", "payments", "SELECT", "public", "loan_own_or_fn"),
      Pol("payments_insert_policy", "payments", "INSERT", "public", "fn"),
      Pol("activity_select_policy", "activity_log", "SELECT", "public", "own_user_or_fn"),
      Pol("activity_insert_policy", "activity_log", "INSERT", "public", "own_user_or_fn") }

\* final-admin-fix.sql as it would be with the loans UPDATE policy written
\* like its SELECT policy, USING (true)
FinalFixPolicies_updateAll ==
    { Pol("profiles_select_all", "profiles", "SELECT", "authenticated", "true"),
      Pol("profiles_update_own", "profiles", "UPDATE", "authenticated", "own_id"),
      Pol("profiles_insert_own", "profiles", "INSERT", "authenticated", "own_id"),
      Pol("loans_select_all", "loans", "SELECT", "authenticated", "true"),
      Pol("loans_update_own", "loans", "UPDATE", "authenticated", "true"),
      Pol("loans_insert_own", "loans", "INSERT", "authenticated", "own_user"),
      Pol("payments_select_all", "payments", "SELECT", "authenticated", "true"),
      Pol("payments_insert_all", "payments", "INSERT", "authenticated", "true"),
      Pol("activity_select_all", "activity_log", "SELECT", "authenticated", "true"),
      Pol("activity_insert_own", "activity_log", "INSERT", "authenticated", "own_user") }

\* final-admin-fix.sql: "simple, non-recursive policies"
FinalFixPolicies ==
    { Pol("profiles_select_all", "profiles", "SELECT", "authenticated", "true"),
      Pol("profiles_update_own", "profiles", "UPDATE", "authenticated", "own_id"),
      Pol("profiles_insert_own", "profiles", "INSERT", "authenticated", "own_id"),
      Pol("loans_select_all", "loans", "SELECT", "authenticated", "true"),
      Pol("loans_update_own", "loans", "UPDATE", "authenticated", "own_user"),
      Pol("loans_insert_own", "loans", "INSERT", "authenticated", "own_user"),
      Pol("payments_select_all", "payments", "SELECT", "authenticated", "true"),
      Pol("payments_insert_all", "payments", "INSERT", "authenticated", "true"),
      Pol("activity_select_all", "activity_log", "SELECT", "authenticated", "true"),
      Pol("activity_insert_own", "activity_log", "INSERT", "authenticated", "own_user") }

\* Every script drops and creates its policies as a group, so the installed
\* policies are told by the scripts they came from.
Scripts == {"database-schema", "admin-friendly", "fix-infinite-recursion", "final-admin-fix"}

ScriptPolicies(script) ==
    CASE script = "database-schema" -> SchemaPolicies
      [] script = "admin-friendly" -> AdminFriendlyPolicies
      [] script = "fix-infinite-recursion" -> RecursionFixPolicies
      [] script = "final-admin-fix" -> FinalFixPolicies

policies == UNION { ScriptPolicies(s) : s \in installed }

(* --------------------------- identity context -------------------------- *)
(* req is the last statement the database ran: under which role and        *)
(* auth.uid(), on which table, and how it ended: "ok" (a row written),     *)
(* "none" (no row passed the policies, no error) or "error".               *)

\* a request through the data API: the anon role without a session, the
\* authenticated role with one; auth.uid() is the session's user
ApiContext(caller, tbl, cmd, result) ==
    [role |-> IF caller = Anon THEN "anon" ELSE "authenticated",
     uid |-> caller, tbl |-> tbl, cmd |-> cmd, result |-> result]

\* the SQL editor: the table owner, past row level security
EditorContext(me, tbl, cmd) ==
    [role |-> "postgres", uid |-> me, tbl |-> tbl, cmd |-> cmd, result |-> "ok"]

(* ------------------------ admin status resolver ------------------------ *)

Coalesce(v, d) == IF v = "NULL" THEN d ELSE v

\* the resolver as it would be if it answered from the flag a device keeps
is_admin_user_cached(user_id) ==
    \E s \in Sessions : session[s] = user_id /\ isAdmin[s]

\* the resolver as it would be with COALESCE(is_admin, TRUE)
is_admin_user_nullIsTrue(user_id) ==
    LET admin_status ==
            IF user_id \in Users /\ profiles[user_id].exists
            THEN Coalesce(profiles[user_id].is_admin, "TRUE")
            ELSE "NULL"
    IN  Coalesce(admin_status, "FALSE") = "TRUE"

\* is_admin_user(user_id): SECURITY DEFINER, reads profiles past the policies.
\* SELECT ... INTO leaves admin_status NULL when no row matches.
is_admin_user(user_id) ==
    LET admin_status ==
            IF user_id \in Users /\ profiles[user_id].exists
            THEN Coalesce(profiles[user_id].is_admin, "FALSE")
            ELSE "NULL"
    IN  Coalesce(admin_status, "FALSE") = "TRUE"

(* --------------------------- policy evaluator -------------------------- *)

\* the applicable policies as they would be if TO authenticated were not
\* looked at
Applicable_anyRole(tbl, cmd, caller) ==
    { p \in policies : p.tbl = tbl /\ p.cmd = cmd }

\* the policies of a command that apply to the caller's role: a policy
\* created TO authenticated does not apply to the anon role
Applicable(tbl, cmd, caller) ==
    { p \in policies :
        /\ p.tbl = tbl
        /\ p.cmd = cmd
        /\ (p.to = "public" \/ caller # Anon) }

\* an UPDATE or DELETE ... WHERE id = x reads the row, so the SELECT
\* policies are applied to it as well
QueryPolicies(tbl, cmd, caller) ==
    Applicable(tbl, cmd, caller) \cup
    (IF cmd \in {"UPDATE", "DELETE"} THEN Applicable(tbl, "SELECT", caller) ELSE {})

\* the tables a policy expression sub-selects from with the caller's rights
Refs(qual) ==
    CASE qual \in {"loan_own", "loan_own_or_fn"} -> {"loans"}
      [] qual \in {"own_id_or_sub", "own_user_or_sub", "sub"} -> {"profiles"}
      [] qual = "loan_own_or_sub" -> {"loans", "profiles"}
      [] OTHER -> {}

\* "infinite recursion detected in policy for relation": expanding the
\* policies of a table reaches, through the sub-selects of their
\* expressions, a table whose policies are already being expanded
RECURSIVE Recurses(_, _, _, _)
Recurses(tbl, cmd, caller, chain) ==
    \/ tbl \in chain
    \/ \E p \in QueryPolicies(tbl, cmd, caller) :
         \E t \in Refs(p.qual) : Recurses(t, "SELECT", caller, chain \cup {tbl})

RECURSIVE Passes(_, _, _, _)
RECURSIVE QualHolds(_, _, _)

\* EXISTS (SELECT 1 FROM profiles WHERE id = auth.uid() AND is_admin = TRUE),
\* itself filtered by the SELECT policies of profiles
AdminSubselect(caller) ==
    /\ caller \in Users
    /\ profiles[caller].exists
    /\ profiles[caller].is_admin = "TRUE"
    /\ Passes("profiles", "SELECT", caller, caller)

\* EXISTS (SELECT 1 FROM loans WHERE loans.id = payments.loan_id AND ...),
\* itself filtered by the SELECT policies of loans
LoanSubselect(caller, loan_id, withFn) ==
    \E l \in LoanIds :
        /\ loans[l].exists
        /\ l = loan_id
        /\ \/ (caller # Anon /\ loans[l].user_id = caller)
           \/ (withFn /\ is_admin_user(caller))
        /\ Passes("loans", "SELECT", caller, loans[l].user_id)

\* key: the column the expression compares (profiles.id, loans.user_id,
\* activity_log.user_id, payments.loan_id)
QualHolds(qual, caller, key) ==
    LET own == caller # Anon /\ key = caller
    IN  CASE qual = "true" -> TRUE
          [] qual \in {"own_id", "own_user"} -> own
          [] qual \in {"own_id_or_fn", "own_user_or_fn"} -> own \/ is_admin_user(caller)
          [] qual = "fn" -> is_admin_user(caller)
          [] qual \in {"own_id_or_sub", "own_user_or_sub"} -> own \/ AdminSubselect(caller)
          [] qual = "sub" -> AdminSubselect(caller)
          [] qual = "loan_own" -> LoanSubselect(caller, key, FALSE)
          [] qual = "loan_own_or_fn" -> LoanSubselect(caller, key, TRUE)
          [] qual = "loan_own_or_sub" ->
                LoanSubselect(caller, key, FALSE) \/ AdminSubselect(caller)

\* the decision as it would be if a command without a policy were let through
Passes_defaultAllow(tbl, cmd, caller, key) ==
    \/ Applicable(tbl, cmd, caller) = {}
    \/ \E p \in Applicable(tbl, cmd, caller) : QualHolds(p.qual, caller, key)

\* permissive policies are OR-ed; no applicable policy means deny
Passes(tbl, cmd, caller, key) ==
    \E p \in Applicable(tbl, cmd, caller) : QualHolds(p.qual, caller, key)

\* the decision for one row: a statement whose policies recurse fails as a
\* whole; an UPDATE or DELETE must also see the row
Allowed(tbl, cmd, caller, key) ==
    /\ ~Recurses(tbl, cmd, caller, {})
    /\ Passes(tbl, cmd, caller, key)
    /\ (cmd \in {"UPDATE", "DELETE"} => Passes(tbl, "SELECT", caller, key))

can_select(tbl, caller, key) == Allowed(tbl, "SELECT", caller, key)
can_insert(tbl, caller, key) == Allowed(tbl, "INSERT", caller, key)
can_update(tbl, caller, key) == Allowed(tbl, "UPDATE", caller, key)
can_delete(tbl, caller, key) == Allowed(tbl, "DELETE", caller, key)

(* ------------------------- operator: SQL editor ------------------------ *)
(* The scripts are run by the operator in the SQL editor, past the         *)
(* policies.  CREATE POLICY has no IF NOT EXISTS: a script whose policy    *)
(* names are already installed fails and changes nothing.  `me` is what    *)
(* auth.uid() yields where the script is run (NULL without a session).     *)

MaxCreatedAt ==
    IF \E u \in Users : profiles[u].exists
    THEN CHOOSE n \in 1..NumUsers :
            /\ \E u \in Users : profiles[u].exists /\ profiles[u].created_at = n
            /\ \A u \in Users : profiles[u].exists => profiles[u].created_at <= n
    ELSE 0

\* SELECT id FROM profiles ORDER BY created_at DESC LIMIT 1
MostRecentProfile ==
    { u \in Users : profiles[u].exists /\ profiles[u].created_at = MaxCreatedAt }

\* UPDATE profiles SET is_admin = v WHERE id IN ids
SetAdmin(ids, v) ==
    [u \in Users |->
        IF u \in ids /\ profiles[u].exists
        THEN [profiles[u] EXCEPT !.is_admin = v]
        ELSE profiles[u]]

\* "Fix RLS Policies for Admin Dashboard Access"
DeployAdminFriendly(me) ==
    /\ "admin-friendly" \notin installed
    /\ installed' = (installed \ {"database-schema"}) \cup {"admin-friendly"}
    /\ profiles' = SetAdmin({me}, "TRUE")
    /\ req' = EditorContext(me, "profiles", "UPDATE")
    /\ UNCHANGED <<loans, payments, activity_log, uiVars>>

\* fix-infinite-recursion.sql, its DROP POLICY / CREATE POLICY part
DeployRecursionFix ==
    /\ "fix-infinite-recursion" \notin installed
    /\ installed' = (installed \ {"database-schema"}) \cup {"fix-infinite-recursion"}
    /\ req' = EditorContext(Anon, "profiles", "POLICY")
    /\ UNCHANGED <<profiles, loans, payments, activity_log, uiVars>>

\* final-admin-fix.sql: drops every policy, makes the most recent profile
\* an admin, creates its own policies
DeployFinalAdminFix ==
    /\ installed' = {"final-admin-fix"}
    /\ profiles' = SetAdmin(MostRecentProfile, "TRUE")
    /\ req' = EditorContext(Anon, "profiles", "POLICY")
    /\ UNCHANGED <<loans, payments, activity_log, uiVars>>

\* the profiles table as it would be without its primary key
PrimaryKeyFree_noKey(id) == TRUE

\* id UUID ... PRIMARY KEY: a second row with the id is a unique violation
PrimaryKeyFree(id) == ~profiles[id].exists

\* a row as INSERT builds it: the columns given, the defaults for the rest
NewProfile(id, adm, name) ==
    [exists |-> TRUE, is_admin |-> adm, created_at |-> MaxCreatedAt + 1,
     full_name |-> name, credit_score |-> 0, rows |-> profiles[id].rows + 1]

\* the bootstrap statement as it would be without WHERE NOT EXISTS: the
\* conflict branch sets is_admin = TRUE on the row that is there
EnsureAdminProfile_noGuard(me) ==
    LET result == IF me = Anon THEN "error" ELSE "ok"
    IN  /\ req' = [EditorContext(me, "profiles", "UPSERT") EXCEPT !.result = result]
        /\ profiles' =
              IF result # "ok" THEN profiles
              ELSE IF profiles[me].exists THEN SetAdmin({me}, "TRUE")
              ELSE [profiles EXCEPT ![me] = NewProfile(me, "TRUE", "Admin User")]
        /\ UNCHANGED <<installed, loans, payments, activity_log, uiVars>>

\* "Make sure you have an admin profile": INSERT INTO profiles (id, email,
\* full_name, is_admin) SELECT auth.uid(), ..., TRUE WHERE NOT EXISTS
\* (SELECT 1 FROM profiles WHERE id = auth.uid()) ON CONFLICT (id) DO UPDATE
\* SET is_admin = TRUE, ...  With a profile there the SELECT yields no row
\* and nothing is written; without a session auth.uid() is NULL and the
\* row is refused by the primary key.
EnsureAdminProfile(me) ==
    LET result == IF me = Anon THEN "error"
                  ELSE IF ~profiles[me].exists THEN "ok" ELSE "none"
    IN  /\ req' = [EditorContext(me, "profiles", "UPSERT") EXCEPT !.result = result]
        /\ profiles' =
              IF result = "ok"
              THEN [profiles EXCEPT ![me] = NewProfile(me, "TRUE", "Admin User")]
              ELSE profiles
        /\ UNCHANGED <<installed, loans, payments, activity_log, uiVars>>

\* admin-setup-guide.md: UPDATE profiles SET is_admin = TRUE / FALSE
\* WHERE id = '<uuid>'
OperatorSetAdmin(u, v) ==
    /\ v \in {"TRUE", "FALSE"}
    /\ profiles[u].exists
    /\ profiles' = SetAdmin({u}, v)
    /\ req' = EditorContext(Anon, "profiles", "UPDATE")
    /\ UNCHANGED <<installed, loans, payments, activity_log, uiVars>>

(* ---------------------- requests through the data API ------------------ *)
(* A request carries the caller's identity.  An INSERT the policies deny   *)
(* is an error; an UPDATE writes the rows that pass the policies, which    *)
(* may be none, and that is no error.  A statement whose policies recurse  *)
(* is an error.                                                            *)

InsertResult(tbl, caller, key, valid) ==
    IF valid /\ can_insert(tbl, caller, key) THEN "ok" ELSE "error"

UpdateResult(tbl, caller, key, found) ==
    IF Recurses(tbl, "UPDATE", caller, {}) THEN "error"
    ELSE IF found /\ can_update(tbl, caller, key) THEN "ok"
    ELSE "none"

\* supabase.from('profiles').insert({ id, email, full_name: '', is_admin })
InsertProfile(caller, id, adm) ==
    LET result == InsertResult("profiles", caller, id, PrimaryKeyFree(id))
    IN  /\ req' = ApiContext(caller, "profiles", "INSERT", result)
        /\ profiles' =
              IF result = "ok"
              THEN [profiles EXCEPT ![id] = NewProfile(id, adm, "")]
              ELSE profiles
        /\ UNCHANGED <<installed, loans, payments, activity_log, uiVars>>

EditedNames == {"Maria"}
NewScores == {650}

\* saveProfile: upsert({ id: session.user.id, full_name, phone, avatar_url,
\* updated_at }), that is INSERT ... ON CONFLICT (id) DO UPDATE SET the
\* columns given.  The INSERT check is applied to the proposed row; on a
\* conflict the UPDATE policies are applied to the row that is there, and a
\* row they deny is an error.  A new row takes the defaults for the rest.
saveProfileStmt(caller, name) ==
    LET result ==
            IF /\ can_insert("profiles", caller, caller)
               /\ (profiles[caller].exists => can_update("profiles", caller, caller))
            THEN "ok" ELSE "error"
    IN  /\ req' = ApiContext(caller, "profiles", "UPSERT", result)
        /\ profiles' =
              IF result # "ok" THEN profiles
              ELSE IF profiles[caller].exists
              THEN [profiles EXCEPT ![caller].full_name = name]
              ELSE [profiles EXCEPT ![caller] = NewProfile(caller, IsAdminDefault, name)]

saveProfile(caller, name) ==
    /\ caller \in Users
    /\ saveProfileStmt(caller, name)
    /\ UNCHANGED <<installed, loans, payments, activity_log, uiVars>>

\* updateUserCreditScore: .from('profiles').update({ credit_score }).eq('id', userId)
UpdateCreditScore(caller, target, score) ==
    LET result == UpdateResult("profiles", caller, target, profiles[target].exists)
    IN  /\ req' = ApiContext(caller, "profiles", "UPDATE", result)
        /\ profiles' =
              IF result = "ok" THEN [profiles EXCEPT ![target].credit_score = score]
              ELSE profiles
        /\ UNCHANGED <<installed, loans, payments, activity_log, uiVars>>

\* supabase.from('profiles').update({ is_admin }).eq('id', target)
UpdateProfile(caller, target, adm) ==
    LET result == UpdateResult("profiles", caller, target, profiles[target].exists)
    IN  /\ req' = ApiContext(caller, "profiles", "UPDATE", result)
        /\ profiles' = IF result = "ok" THEN SetAdmin({target}, adm) ELSE profiles
        /\ UNCHANGED <<installed, loans, payments, activity_log, uiVars>>

FreeLoanId ==
    CHOOSE l \in LoanIds : ~loans[l].exists /\ \A k \in 1..(l - 1) : loans[k].exists

\* supabase.from('loans').insert({ user_id, ..., status })
InsertLoan(caller, owner, st) ==
    LET result == InsertResult("loans", caller, owner, StatusCheck(st))
    IN  /\ \E l \in LoanIds : ~loans[l].exists
        /\ req' = ApiContext(caller, "loans", "INSERT", result)
        /\ loans' =
              IF result = "ok"
              THEN [loans EXCEPT ![FreeLoanId] =
                      NewLoan(owner, st)]
              ELSE loans
        /\ UNCHANGED <<installed, profiles, payments, activity_log, uiVars>>

\* supabase.from('loans').update({ status, ... }).eq('id', loanId):
\* the only condition on the row is its id
UpdateLoanResult(caller, l, st) ==
    UpdateResult("loans", caller, loans[l].user_id, loans[l].exists /\ StatusCheck(st))

UpdateLoanStmt(caller, l, st) ==
    LET result == UpdateLoanResult(caller, l, st)
    IN  /\ req' = ApiContext(caller, "loans", "UPDATE", result)
        /\ loans' = IF result = "ok" THEN [loans EXCEPT ![l].status = st] ELSE loans

\* update(updateData): the columns updateData names are written
UpdateLoanDataStmt(caller, l, updateData) ==
    LET result == UpdateLoanResult(caller, l, updateData.status)
    IN  /\ req' = ApiContext(caller, "loans", "UPDATE", result)
        /\ loans' =
              IF result = "ok"
              THEN [loans EXCEPT ![l] =
                      [c \in DOMAIN loans[l] |->
                          IF c \in DOMAIN updateData THEN updateData[c] ELSE loans[l][c]]]
              ELSE loans

UpdateLoan(caller, l, st) ==
    /\ UpdateLoanStmt(caller, l, st)
    /\ UNCHANGED <<installed, profiles, payments, activity_log, uiVars>>

FreePaymentId ==
    CHOOSE p \in PaymentIds : ~payments[p].exists /\ \A k \in 1..(p - 1) : payments[k].exists

\* supabase.from('payments').insert({ loan_id, amount });
\* loan_id REFERENCES loans(id) and may be NULL
InsertPayment(caller, loan_id) ==
    LET fk == loan_id = NullLoan \/ (loan_id \in LoanIds /\ loans[loan_id].exists)
        result == InsertResult("payments", caller, loan_id, fk)
    IN  /\ \E p \in PaymentIds : ~payments[p].exists
        /\ req' = ApiContext(caller, "payments", "INSERT", result)
        /\ payments' =
              IF result = "ok"
              THEN [payments EXCEPT ![FreePaymentId] = [exists |-> TRUE, loan_id |-> loan_id]]
              ELSE payments
        /\ UNCHANGED <<installed, profiles, loans, activity_log, uiVars>>

ActivityTypes ==
    {"loan_application", "loan_approve", "loan_reject", "loan_disburse", "loan_complete"}

\* supabase.from('activity_log').insert({ user_id, activity_type, ... })
InsertActivityStmt(caller, owner, type) ==
    LET result == InsertResult("activity_log", caller, owner, TRUE)
    IN  /\ req' = ApiContext(caller, "activity_log", "INSERT", result)
        /\ activity_log' =
              IF result = "ok"
              THEN Append(activity_log, [user_id |-> owner, activity_type |-> type])
              ELSE activity_log

InsertActivity(caller, owner, type) ==
    /\ Len(activity_log) < MaxActivity
    /\ InsertActivityStmt(caller, owner, type)
    /\ UNCHANGED <<installed, profiles, loans, payments, uiVars>>

\* the row of the log a request names by its id
LogOwner(i) == IF i \in 1..Len(activity_log) THEN activity_log[i].user_id ELSE Anon

RemoveAt(seq, i) == SubSeq(seq, 1, i - 1) \o SubSeq(seq, i + 1, Len(seq))

\* PATCH /activity_log?id=eq.x through the data API; the app has no such
\* call, the API takes it from any caller.  No script has an UPDATE policy
\* on activity_log.
UpdateActivity(caller, i, type) ==
    LET found == i \in 1..Len(activity_log)
        result == IF Recurses("activity_log", "UPDATE", caller, {}) THEN "error"
                  ELSE IF found /\ can_update("activity_log", caller, LogOwner(i)) THEN "ok"
                  ELSE "none"
    IN  /\ req' = ApiContext(caller, "activity_log", "UPDATE", result)
        /\ activity_log' =
              IF result = "ok"
              THEN [activity_log EXCEPT ![i].activity_type = type]
              ELSE activity_log
        /\ UNCHANGED <<installed, profiles, loans, payments, uiVars>>

\* DELETE /activity_log?id=eq.x through the data API.  No script has a
\* DELETE policy on activity_log.
DeleteActivity(caller, i) ==
    LET found == i \in 1..Len(activity_log)
        result == IF Recurses("activity_log", "DELETE", caller, {}) THEN "error"
                  ELSE IF found /\ can_delete("activity_log", caller, LogOwner(i)) THEN "ok"
                  ELSE "none"
    IN  /\ req' = ApiContext(caller, "activity_log", "DELETE", result)
        /\ activity_log' =
              IF result = "ok" THEN RemoveAt(activity_log, i) ELSE activity_log
        /\ UNCHANGED <<installed, profiles, loans, payments, uiVars>>

(* ------------------------------ App.tsx -------------------------------- *)

\* .from('profiles').select('is_admin').eq('id', userId).single():
\* an error when the policies recurse or when no row comes back
ProfileReadable(caller, id) ==
    /\ id \in Users
    /\ profiles[id].exists
    /\ can_select("profiles", caller, id)

\* checkAdminStatus: isAdmin is set only when the query returned a row
checkAdminStatus(s) ==
    /\ session[s] \in Users
    /\ isAdmin' =
          IF ProfileReadable(session[s], session[s])
          THEN [isAdmin EXCEPT ![s] = (profiles[session[s]].is_admin = "TRUE")]
          ELSE isAdmin
    /\ req' = ApiContext(session[s], "profiles", "SELECT",
                         IF ProfileReadable(session[s], session[s]) THEN "ok" ELSE "error")
    /\ UNCHANGED <<accountVars, installed, profiles, loans, payments, activity_log,
                   session, inflight, loansView, pc, cur>>

AdminAnswers == [userId : Users, outcome : {"TRUE", "FALSE", "error"}]

\* what the query of checkAdminStatus comes back with: data.is_admin of the
\* row, or an error (no row for .single(), or policies that recurse)
AdminQuery(userId) ==
    IF ProfileReadable(userId, userId)
    THEN [userId |-> userId, outcome |-> Coalesce(profiles[userId].is_admin, "FALSE")]
    ELSE [userId |-> userId, outcome |-> "error"]

\* onAuthStateChange((_event, newSession) => ...): a sign-in on a device
\* without a session, a token refresh for the user who is signed in, or a
\* sign-out.  With a user the session is set and checkAdminStatus is
\* called, its query leaves at once and is answered later; without one
\* isAdmin is set to false.
onAuthStateChange(s, newSession) ==
    /\ newSession = Anon \/ session[s] = Anon \/ newSession = session[s]
    /\ newSession # session[s] \/ newSession # Anon
    /\ session' = [session EXCEPT ![s] = newSession]
    /\ IF newSession # Anon
       THEN /\ inflight' = [inflight EXCEPT ![s] = @ \cup {AdminQuery(newSession)}]
            /\ req' = ApiContext(newSession, "profiles", "SELECT",
                                 IF AdminQuery(newSession).outcome = "error"
                                 THEN "error" ELSE "ok")
            /\ UNCHANGED isAdmin
       ELSE /\ isAdmin' = [isAdmin EXCEPT ![s] = FALSE]
            /\ UNCHANGED <<inflight, req>>
    /\ UNCHANGED <<accountVars, installed, profiles, loans, payments, activity_log,
                   loansView, pc, cur>>

\* checkAdminStatus after its await: if (!error && data)
\* setIsAdmin(data.is_admin || false); with an error isAdmin stays as it
\* is.  Whose session the device holds by now is not looked at.
checkAdminStatus_then(s, r) ==
    /\ r \in inflight[s]
    /\ inflight' = [inflight EXCEPT ![s] = @ \ {r}]
    /\ isAdmin' = IF r.outcome = "error" THEN isAdmin
                  ELSE [isAdmin EXCEPT ![s] = (r.outcome = "TRUE")]
    /\ UNCHANGED <<accountVars, dbVars, session, loansView, pc, cur>>

\* AdminDashboard, rendered while session and isAdmin: checkAdminAccess.
\* No row for .single() is error PGRST116 and leads to createAdminProfile,
\* an insert of the own profile with is_admin: true; every other outcome
\* ends in an alert or in nothing.
checkAdminAccess(s) ==
    /\ session[s] \in Users
    /\ isAdmin[s]
    /\ IF ~Recurses("profiles", "SELECT", session[s], {})
          /\ ~ProfileReadable(session[s], session[s])
       THEN LET result == InsertResult("profiles", session[s], session[s],
                                       PrimaryKeyFree(session[s]))
            IN  /\ req' = ApiContext(session[s], "profiles", "INSERT", result)
                /\ profiles' =
                      IF result = "ok"
                      THEN [profiles EXCEPT ![session[s]] =
                                NewProfile(session[s], "TRUE", "")]
                      ELSE profiles
       ELSE /\ req' = ApiContext(session[s], "profiles", "SELECT",
                                 IF ProfileReadable(session[s], session[s])
                                 THEN "ok" ELSE "error")
            /\ UNCHANGED profiles
    /\ UNCHANGED <<installed, loans, payments, activity_log, uiVars>>

(* ------------------------------ Account -------------------------------- *)
(* The texts of the loan form are sequences of characters, so that         *)
(* parseFloat is computed from what was typed.                             *)

Digit == {"0", "1", "2", "3", "4", "5", "6", "7", "8", "9"}

DigitVal(c) ==
    CASE c = "0" -> 0 [] c = "1" -> 1 [] c = "2" -> 2 [] c = "3" -> 3 [] c = "4" -> 4
      [] c = "5" -> 5 [] c = "6" -> 6 [] c = "7" -> 7 [] c = "8" -> 8 [] c = "9" -> 9

\* a number is the fraction n / d with d a power of ten, or NaN
NaN == [nan |-> TRUE, n |-> 0, d |-> 1]
Num(k) == [nan |-> FALSE, n |-> k, d |-> 1]

RECURSIVE Pow10(_)
Pow10(k) == IF k = 0 THEN 1 ELSE 10 * Pow10(k - 1)

RECURSIVE TrimStart(_)
TrimStart(t) == IF t # << >> /\ Head(t) = " " THEN TrimStart(Tail(t)) ELSE t

\* the number of leading digits of a text
RECURSIVE DigitsLen(_)
DigitsLen(t) == IF t # << >> /\ Head(t) \in Digit THEN 1 + DigitsLen(Tail(t)) ELSE 0

\* the value of the first k characters, all digits
RECURSIVE DigitsVal(_, _)
DigitsVal(t, k) == IF k = 0 THEN 0 ELSE 10 * DigitsVal(t, k - 1) + DigitVal(t[k])

\* parseFloat: leading white space is skipped, then the longest prefix
\* [sign] digits [. digits] is read and the rest of the text is ignored;
\* NaN when that prefix has no digit.  Exponents and "Infinity" are not
\* read here: no text below has them.
parseFloat(t) ==
    LET t0 == TrimStart(t)
        neg == t0 # << >> /\ Head(t0) = "-"
        t1 == IF t0 # << >> /\ Head(t0) \in {"+", "-"} THEN Tail(t0) ELSE t0
        ni == DigitsLen(t1)
        t2 == SubSeq(t1, ni + 1, Len(t1))
        dot == t2 # << >> /\ Head(t2) = "."
        t3 == IF dot THEN Tail(t2) ELSE << >>
        nf == DigitsLen(t3)
        abs == DigitsVal(t1, ni) * Pow10(nf) + DigitsVal(t3, nf)
    IN  IF ni + nf = 0 THEN NaN
        ELSE [nan |-> FALSE, n |-> IF neg THEN 0 - abs ELSE abs, d |-> Pow10(nf)]

\* the comparisons of JavaScript: every comparison with NaN is false
Gt(x, y) == ~x.nan /\ ~y.nan /\ x.n * y.d > y.n * x.d
Le(x, y) == ~x.nan /\ ~y.nan /\ x.n * y.d <= y.n * x.d
Times(x, k) == IF x.nan THEN NaN ELSE [x EXCEPT !.n = @ * k]

MaxLoanAmount == 500000
IncomeMultiple == 5

\* submitLoanApplication, "Validation": the form goes on to the insert
FormAccepted(form) ==
    LET amount == parseFloat(form.amount)
        monthlyIncome == parseFloat(form.monthlyIncome)
    IN  /\ ~(form.amount = << >> \/ form.purpose = "" \/ form.monthlyIncome = << >>)
        /\ ~(Le(amount, Num(0)) \/ Gt(amount, Num(MaxLoanAmount)))
        /\ ~Le(monthlyIncome, Num(0))
        /\ ~Gt(amount, Times(monthlyIncome, IncomeMultiple))

EmptyForm == [amount |-> << >>, purpose |-> "", monthlyIncome |-> << >>]
NoLoanCall == [pc |-> "idle", amount |-> << >>, monthlyIncome |-> << >>]
NoCalls == [saves |-> 0, uploads |-> 0, loan |-> NoLoanCall]

AmountTexts ==
    { <<"a", "b", "c">>, <<"0">>, <<"-", "5">>, <<"0", ".", "5">>,
      <<"1", "0", "0", "0">>, <<"5", "0", "0", "0", "0", "1">> }
PurposeTexts == {"", "Tuition"}
IncomeTexts == { <<".">>, <<"0">>, <<"1", "0", "0">>, <<"2", "0", "0", "0">> }

\* onChangeText of the fields of the loan modal
setLoanApplication(s, amount, purpose, monthlyIncome) ==
    /\ session[s] \in Users
    /\ loanApplication' = [loanApplication EXCEPT ![s] =
            [amount |-> amount, purpose |-> purpose, monthlyIncome |-> monthlyIncome]]
    /\ UNCHANGED <<dbVars, dashVars, uploading, account>>

\* submitLoanApplication up to its insert: Submit is disabled while
\* uploading; a form that fails the validation gets an alert and nothing else
submitLoanApplication(s) ==
    /\ session[s] \in Users
    /\ ~uploading[s]
    /\ account[s].loan.pc = "idle"
    /\ \E l \in LoanIds : ~loans[l].exists
    /\ Len(activity_log) < MaxActivity
    /\ IF FormAccepted(loanApplication[s])
       THEN /\ uploading' = [uploading EXCEPT ![s] = TRUE]
            /\ account' = [account EXCEPT ![s].loan =
                    [pc |-> "insert", amount |-> loanApplication[s].amount,
                     monthlyIncome |-> loanApplication[s].monthlyIncome]]
       ELSE UNCHANGED <<uploading, account>>
    /\ UNCHANGED <<dbVars, dashVars, loanApplication>>

\* supabase.from("loans").insert({ user_id: session.user.id, amount, ...,
\* status: "pending" }): a NaN amount goes out as null, and amount is NOT
\* NULL.  An error is thrown to the catch, and finally clears uploading.
submitLoanApplication_insert(s) ==
    LET caller == session[s]
        amount == parseFloat(account[s].loan.amount)
        result == InsertResult("loans", caller, caller, StatusCheck("pending") /\ ~amount.nan)
    IN  /\ account[s].loan.pc = "insert"
        /\ req' = ApiContext(caller, "loans", "INSERT", result)
        /\ loans' =
              IF result = "ok"
              THEN [loans EXCEPT ![FreeLoanId] =
                      NewLoan(caller, "pending")]
              ELSE loans
        /\ IF result = "ok"
           THEN /\ account' = [account EXCEPT ![s].loan.pc = "log"]
                /\ UNCHANGED uploading
           ELSE /\ account' = [account EXCEPT ![s].loan = NoLoanCall]
                /\ uploading' = [uploading EXCEPT ![s] = FALSE]
        /\ UNCHANGED <<installed, profiles, payments, activity_log, dashVars, loanApplication>>

\* submitLoanApplication, "Log activity": the result of the insert is not
\* looked at; closeLoanModal empties the form, finally clears uploading
submitLoanApplication_log(s) ==
    /\ account[s].loan.pc = "log"
    /\ InsertActivityStmt(session[s], session[s], "loan_application")
    /\ account' = [account EXCEPT ![s].loan = NoLoanCall]
    /\ loanApplication' = [loanApplication EXCEPT ![s] = EmptyForm]
    /\ uploading' = [uploading EXCEPT ![s] = FALSE]
    /\ UNCHANGED <<installed, profiles, loans, payments, dashVars>>

\* saveProfile up to its upsert: Save is disabled while uploading
saveProfile_press(s) ==
    /\ session[s] \in Users
    /\ ~uploading[s]
    /\ account[s].saves < MaxInFlight
    /\ uploading' = [uploading EXCEPT ![s] = TRUE]
    /\ account' = [account EXCEPT ![s].saves = @ + 1]
    /\ UNCHANGED <<dbVars, dashVars, loanApplication>>

\* saveProfile: the upsert is answered; finally clears uploading
saveProfile_then(s, name) ==
    /\ account[s].saves > 0
    /\ saveProfileStmt(session[s], name)
    /\ account' = [account EXCEPT ![s].saves = @ - 1]
    /\ uploading' = [uploading EXCEPT ![s] = FALSE]
    /\ UNCHANGED <<installed, loans, payments, activity_log, dashVars, loanApplication>>

\* pickImage, "Change Photo": the button is not disabled by uploading;
\* with a picked image uploadProfilePicture sets uploading
pickImage(s) ==
    /\ session[s] \in Users
    /\ account[s].uploads < MaxInFlight
    /\ uploading' = [uploading EXCEPT ![s] = TRUE]
    /\ account' = [account EXCEPT ![s].uploads = @ + 1]
    /\ UNCHANGED <<dbVars, dashVars, loanApplication>>

\* uploadProfilePicture: the upload ends, with the URL or with an error;
\* finally clears uploading
uploadProfilePicture_finally(s) ==
    /\ account[s].uploads > 0
    /\ account' = [account EXCEPT ![s].uploads = @ - 1]
    /\ uploading' = [uploading EXCEPT ![s] = FALSE]
    /\ UNCHANGED <<dbVars, dashVars, loanApplication>>

(* --------------------------- AdminDashboard ---------------------------- *)

NoView == [visible |-> FALSE, user_id |-> Anon, status |-> "pending"]
NoCall == [loanId |-> 0, action |-> "none", user_id |-> Anon]

Actions == {"approve", "reject", "disburse", "complete"}

\* handleLoanAction: switch (action)
StatusOf(action) ==
    CASE action = "approve" -> "approved"
      [] action = "reject" -> "rejected"
      [] action = "disburse" -> "active"
      [] action = "complete" -> "completed"

\* handleLoanAction: updateData starts with approval_date: new Date() for
\* every action; disburse adds disbursement_date
updateData(action) ==
    IF action = "disburse"
    THEN [status |-> StatusOf(action), approval_date |-> action, disbursement_date |-> action]
    ELSE [status |-> StatusOf(action), approval_date |-> action]

\* `loan_${action}`
ActivityOf(action) ==
    CASE action = "approve" -> "loan_approve"
      [] action = "reject" -> "loan_reject"
      [] action = "disburse" -> "loan_disburse"
      [] action = "complete" -> "loan_complete"

\* renderLoans / loan details modal: the buttons shown for a listed loan
Buttons(status) ==
    CASE status = "pending" -> {"approve", "reject"}
      [] status = "approved" -> {"disburse"}
      [] status = "active" -> {"complete"}
      [] OTHER -> {}

\* loadLoans: loans joined with the owner's profile (profiles!inner), each
\* filtered by the SELECT policies; the query fails when the policies recurse.
\* The join is taken to resolve; .limit(20) is above the number of loans here.
LoansQueryFails(caller) ==
    Recurses("loans", "SELECT", caller, {}) \/ Recurses("profiles", "SELECT", caller, {})

LoansQuery(caller) ==
    [l \in LoanIds |->
        IF /\ loans[l].exists
           /\ can_select("loans", caller, loans[l].user_id)
           /\ ProfileReadable(caller, loans[l].user_id)
        THEN [visible |-> TRUE, user_id |-> loans[l].user_id, status |-> loans[l].status]
        ELSE NoView]

\* loadLoans keeps the old list when the query throws
loadLoans(s) ==
    /\ loansView' =
          IF LoansQueryFails(session[s]) THEN loansView
          ELSE [loansView EXCEPT ![s] = LoansQuery(session[s])]
    /\ req' = ApiContext(session[s], "loans", "SELECT",
                         IF LoansQueryFails(session[s]) THEN "error" ELSE "ok")

\* App renders AdminDashboard while isAdmin; on mount and on pull-to-refresh
\* it runs loadDashboardData
loadDashboardData(s) ==
    /\ session[s] \in Users
    /\ isAdmin[s]
    /\ pc[s] = "idle"
    /\ loadLoans(s)
    /\ UNCHANGED <<accountVars, installed, profiles, loans, payments, activity_log,
                   session, inflight, isAdmin, pc, cur>>

\* every handleLoanAction that gets past its update inserts at most one row
LogHasRoom ==
    Len(activity_log) + Cardinality({t \in Sessions : pc[t] = "log"}) < MaxActivity

\* handleLoanAction up to the update of the loan.  The button is one the
\* device's list shows for the loan; an error of the update is thrown to
\* the catch, an update that wrote no row is not an error.
handleLoanAction(s, l, action) ==
    /\ session[s] \in Users
    /\ isAdmin[s]
    /\ pc[s] = "idle"
    /\ loansView[s][l].visible
    /\ action \in Buttons(loansView[s][l].status)
    /\ LogHasRoom
    /\ UpdateLoanDataStmt(session[s], l, updateData(action))
    /\ IF UpdateLoanResult(session[s], l, StatusOf(action)) = "error"
       THEN UNCHANGED <<pc, cur>>
       ELSE /\ pc' = [pc EXCEPT ![s] = "log"]
            /\ cur' = [cur EXCEPT ![s] =
                    [loanId |-> l, action |-> action, user_id |-> loansView[s][l].user_id]]
    /\ UNCHANGED <<accountVars, installed, profiles, payments, activity_log,
                   session, inflight, isAdmin, loansView>>

\* handleLoanAction, "Log activity": the result of the insert is not looked at
handleLoanAction_log(s) ==
    /\ pc[s] = "log"
    /\ InsertActivityStmt(session[s], cur[s].user_id, ActivityOf(cur[s].action))
    /\ pc' = [pc EXCEPT ![s] = "reload"]
    /\ UNCHANGED <<accountVars, installed, profiles, loans, payments,
                   session, inflight, isAdmin, loansView, cur>>

\* handleLoanAction, "Refresh data"
handleLoanAction_reload(s) ==
    /\ pc[s] = "reload"
    /\ loadLoans(s)
    /\ pc' = [pc EXCEPT ![s] = "idle"]
    /\ cur' = [cur EXCEPT ![s] = NoCall]
    /\ UNCHANGED <<accountVars, installed, profiles, loans, payments, activity_log,
                   session, inflight, isAdmin>>

(* ---------------------------- specifications --------------------------- *)

\* database-schema.sql has been run and the is_admin column added
\* (admin-setup-guide.md, step 1); nobody has signed up yet
InitDb ==
    /\ installed = {"database-schema"}
    /\ req = EditorContext(Anon, "profiles", "POLICY")
    /\ profiles = [u \in Users |-> NoProfile]
    /\ loans = [l \in LoanIds |-> NoLoan]
    /\ payments = [p \in PaymentIds |-> NoPayment]
    /\ activity_log = << >>

\* every identity has saved its profile, in the order of the ids
InitSignedUp ==
    /\ installed = {"database-schema"}
    /\ req = EditorContext(Anon, "profiles", "POLICY")
    /\ profiles = [u \in Users |->
            [exists |-> TRUE, is_admin |-> IsAdminDefault, created_at |-> u,
             full_name |-> "", credit_score |-> 0, rows |-> 1]]
    /\ loans = [l \in LoanIds |-> NoLoan]
    /\ payments = [p \in PaymentIds |-> NoPayment]
    /\ activity_log = << >>

\* Account as it mounts: nothing in flight, the loan form empty
InitAccount ==
    /\ uploading = [s \in Sessions |-> FALSE]
    /\ loanApplication = [s \in Sessions |-> EmptyForm]
    /\ account = [s \in Sessions |-> NoCalls]

\* App before a session is fetched
InitUi ==
    /\ session = [s \in Sessions |-> Anon]
    /\ inflight = [s \in Sessions |-> {}]
    /\ isAdmin = [s \in Sessions |-> FALSE]
    /\ loansView = [s \in Sessions |-> [l \in LoanIds |-> NoView]]
    /\ pc = [s \in Sessions |-> "idle"]
    /\ cur = [s \in Sessions |-> NoCall]
    /\ InitAccount

\* device A holds the session of the first identity, device B of the last
InitSignedIn ==
    /\ session = [s \in Sessions |-> IF s = "deviceA" THEN 1 ELSE NumUsers]
    /\ inflight = [s \in Sessions |-> {}]
    /\ isAdmin = [s \in Sessions |-> FALSE]
    /\ loansView = [s \in Sessions |-> [l \in LoanIds |-> NoView]]
    /\ pc = [s \in Sessions |-> "idle"]
    /\ cur = [s \in Sessions |-> NoCall]
    /\ InitAccount

Deploy ==
    \/ \E me \in Callers : DeployAdminFriendly(me)
    \/ DeployRecursionFix
    \/ DeployFinalAdminFix

GrantOrRevoke == \E u \in Users, v \in {"TRUE", "FALSE"} : OperatorSetAdmin(u, v)

\* the profiles table under every script and every request
InitProfiles == InitDb /\ InitUi
NextProfiles ==
    \/ Deploy
    \/ GrantOrRevoke
    \/ \E c \in Callers, u \in Users, v \in Bool3 : InsertProfile(c, u, v)
    \/ \E c \in Callers, u \in Users, v \in Bool3 : UpdateProfile(c, u, v)
SpecProfiles == InitProfiles /\ [][NextProfiles]_vars

\* the loans table
InitLoans == InitSignedUp /\ InitUi
NextLoans ==
    \/ Deploy
    \/ GrantOrRevoke
    \/ \E c \in Callers, o \in Users, st \in LoanStatus : InsertLoan(c, o, st)
    \/ \E c \in Callers, l \in LoanIds, st \in LoanStatus : UpdateLoan(c, l, st)
SpecLoans == InitLoans /\ [][NextLoans]_vars

\* the payments table, over loans that were applied for
InitPayments == InitSignedUp /\ InitUi
NextPayments ==
    \/ Deploy
    \/ GrantOrRevoke
    \/ \E o \in Users : InsertLoan(o, o, "pending")
    \/ \E c \in Callers, l \in LoanIds \cup {NullLoan} : InsertPayment(c, l)
SpecPayments == InitPayments /\ [][NextPayments]_vars

\* the activity log
InitActivity == InitSignedUp /\ InitUi
NextActivity ==
    \/ Deploy
    \/ GrantOrRevoke
    \/ \E c \in Callers, o \in Users, t \in ActivityTypes : InsertActivity(c, o, t)
SpecActivity == InitActivity /\ [][NextActivity]_vars

\* the records of the log under inserts, changes and deletions asked for
\* through the data API
InitLog == InitSignedUp /\ InitUi
NextLog ==
    \/ Deploy
    \/ GrantOrRevoke
    \/ \E c \in Callers, o \in Users : InsertActivity(c, o, "loan_application")
    \/ \E c \in Callers, i \in 1..MaxActivity : UpdateActivity(c, i, "loan_approve")
    \/ \E c \in Callers, i \in 1..MaxActivity : DeleteActivity(c, i)
SpecLog == InitLog /\ [][NextLog]_vars

\* fix-infinite-recursion.sql has been run after every identity signed up
InitRecursionFix ==
    /\ installed = {"fix-infinite-recursion"}
    /\ req = EditorContext(Anon, "profiles", "POLICY")
    /\ profiles = [u \in Users |->
            [exists |-> TRUE, is_admin |-> IsAdminDefault, created_at |-> u,
             full_name |-> "", credit_score |-> 0, rows |-> 1]]
    /\ loans = [l \in LoanIds |-> NoLoan]
    /\ payments = [p \in PaymentIds |-> NoPayment]
    /\ activity_log = << >>

\* the admin dashboard on two devices, over loans that were applied for
InitDash == InitRecursionFix /\ InitSignedIn
NextDash ==
    \/ \E s \in Sessions, v \in {"TRUE", "FALSE"} : OperatorSetAdmin(session[s], v)
    \/ \E o \in Users : InsertLoan(o, o, "pending")
    \/ \E s \in Sessions : checkAdminStatus(s)
    \/ \E s \in Sessions : loadDashboardData(s)
    \/ \E s \in Sessions, l \in LoanIds, a \in Actions : handleLoanAction(s, l, a)
    \/ \E s \in Sessions : handleLoanAction_log(s)
    \/ \E s \in Sessions : handleLoanAction_reload(s)
SpecDash == InitDash /\ [][NextDash]_vars

\* one admin at the dashboard of device A while the operator grants and
\* revokes that identity's flag
NextRevoke ==
    \/ \E v \in {"TRUE", "FALSE"} : OperatorSetAdmin(session["deviceA"], v)
    \/ \E o \in Users : InsertLoan(o, o, "pending")
    \/ checkAdminStatus("deviceA")
    \/ loadDashboardData("deviceA")
    \/ \E l \in LoanIds, a \in Actions : handleLoanAction("deviceA", l, a)
    \/ handleLoanAction_log("deviceA")
    \/ handleLoanAction_reload("deviceA")
SpecRevoke == InitDash /\ [][NextRevoke]_vars

\* final-admin-fix.sql has been run after every identity signed up: the
\* most recent profile is an admin
InitFinalFix ==
    /\ installed = {"final-admin-fix"}
    /\ req = EditorContext(Anon, "profiles", "POLICY")
    /\ profiles = [u \in Users |->
            [exists |-> TRUE, is_admin |-> IF u = NumUsers THEN "TRUE" ELSE IsAdminDefault,
             created_at |-> u, full_name |-> "", credit_score |-> 0, rows |-> 1]]
    /\ loans = [l \in LoanIds |-> NoLoan]
    /\ payments = [p \in PaymentIds |-> NoPayment]
    /\ activity_log = << >>

\* the dashboard of device A under the policies of final-admin-fix.sql
InitFinalFixDash == InitFinalFix /\ InitSignedIn
SpecFinalFixDash == InitFinalFixDash /\ [][NextRevoke]_vars

\* provisioning of profiles: the profile form, createAdminProfile's insert,
\* the operator's bootstrap statement, and what changes the other columns
InitProvision == InitDb /\ InitUi
NextProvision ==
    \/ DeployRecursionFix
    \/ \E me \in Callers : EnsureAdminProfile(me)
    \/ \E c \in Users, name \in EditedNames : saveProfile(c, name)
    \/ \E c \in Users : InsertProfile(c, c, "TRUE")
    \/ \E c \in Users, t \in Users, sc \in NewScores : UpdateCreditScore(c, t, sc)
SpecProvision == InitProvision /\ [][NextProvision]_vars

\* the App on device A: sessions come and go, the answers of
\* checkAdminStatus arrive when they arrive
InitApp == InitDb /\ InitUi
NextApp ==
    \/ \E me \in Callers : DeployAdminFriendly(me)
    \/ GrantOrRevoke
    \/ \E c \in Users, name \in EditedNames : saveProfile(c, name)
    \/ \E u \in Callers : onAuthStateChange("deviceA", u)
    \/ \E r \in AdminAnswers : checkAdminStatus_then("deviceA", r)
    \/ checkAdminAccess("deviceA")
SpecApp == InitApp /\ [][NextApp]_vars

\* the bootstrap steps of the scripts, with sign-ups that save a profile
\* in between
InitBootstrap == InitDb /\ InitUi
NextBootstrap ==
    \/ DeployFinalAdminFix
    \/ \E me \in Callers : EnsureAdminProfile(me)
    \/ \E c \in Users, name \in EditedNames : saveProfile(c, name)
SpecBootstrap == InitBootstrap /\ [][NextBootstrap]_vars

\* the Account screen of device A
InitAccountScreen == InitSignedUp /\ InitSignedIn
NextAccountScreen ==
    \/ \E a \in AmountTexts, p \in PurposeTexts, m \in IncomeTexts :
          setLoanApplication("deviceA", a, p, m)
    \/ submitLoanApplication("deviceA")
    \/ submitLoanApplication_insert("deviceA")
    \/ submitLoanApplication_log("deviceA")
    \/ saveProfile_press("deviceA")
    \/ \E name \in EditedNames : saveProfile_then("deviceA", name)
    \/ pickImage("deviceA")
    \/ uploadProfilePicture_finally("deviceA")
SpecAccountScreen == InitAccountScreen /\ [][NextAccountScreen]_vars

(* ------------------------------- claims -------------------------------- *)

IsAdminRow(u) == u \in Users /\ profiles[u].exists /\ profiles[u].is_admin = "TRUE"

\* C1: a profile update issued through the data API by a caller who is not
\* an admin never turns an existing profile that was not admin into an admin
\* profile (in particular not the caller's own).
C1_NoGrantByNonAdminUpdate ==
    [][(req'.role # "postgres" /\ ~IsAdminRow(req'.uid))
          => \A t \in Users :
                (profiles[t].exists /\ profiles'[t].is_admin = "TRUE")
                    => profiles[t].is_admin = "TRUE"]_vars

\* C2: a loan's status is changed through the data API only by a caller who
\* is an admin; the owner of a loan who is not an admin cannot change it.
C2_StatusChangeOnlyByAdmin ==
    [][(req'.role # "postgres"
          /\ \E l \in LoanIds : loans[l].exists /\ loans'[l].status # loans[l].status)
          => IsAdminRow(req'.uid)]_vars

\* C3: every change of a loan's status made by handleLoanAction is one of
\* pending->approved, pending->rejected, approved->active, active->completed.
C3_OnlyGraphTransitions ==
    [][\A l \in LoanIds :
          (loans[l].exists /\ loans'[l].status # loans[l].status)
              => <<loans[l].status, loans'[l].status>> \in
                    { <<"pending", "approved">>, <<"pending", "rejected">>,
                      <<"approved", "active">>, <<"active", "completed">> }]_vars

\* C4: an approve or a reject issued from a dashboard takes effect only on a
\* loan that is pending when the update is applied, so of an approve and a
\* reject of the same pending loan at most one writes the status.
C4_ApproveRejectOnlyFromPending ==
    [][\A s \in Sessions :
          (/\ pc[s] = "idle"
           /\ pc'[s] = "log"
           /\ cur'[s].action \in {"approve", "reject"}
           /\ req'.result = "ok")
              => loans[cur'[s].loanId].status = "pending"]_vars

\* C5: a request through the data API that changes the status of a loan of
\* another user is issued by an identity whose profile row says admin at the
\* time of the request; what a device remembers about an earlier answer does
\* not count, so after a revocation no later request of that identity
\* approves another user's loan.
C5_StatusOfOthersLoanOnlyByCurrentAdmin ==
    [][\A l \in LoanIds :
          (/\ req'.role # "postgres"
           /\ loans[l].exists
           /\ loans'[l].status # loans[l].status
           /\ loans[l].user_id # req'.uid)
              => IsAdminRow(req'.uid)]_vars

\* C5, its case: a device still shows the dashboard to an identity whose
\* flag was revoked, the identity has pressed approve on another user's
\* pending loan, and the update wrote no row.
C5_RevokedAdminApproveWroteNothing ==
    \E s \in Sessions :
        /\ isAdmin[s]
        /\ ~IsAdminRow(session[s])
        /\ pc[s] = "log"
        /\ cur[s].action = "approve"
        /\ cur[s].user_id # session[s]
        /\ loans[cur[s].loanId].exists
        /\ loans[cur[s].loanId].status = "pending"
        /\ req = ApiContext(session[s], "loans", "UPDATE", "none")

\* C6: reading a profile is allowed exactly to its owner and to admins.
C6_ProfileSelectIffOwnerOrAdmin ==
    \A u \in Callers, p \in Users :
        profiles[p].exists =>
            (can_select("profiles", u, p) <=> (u = p \/ IsAdminRow(u)))

\* C7: reading a loan is allowed exactly to its owner and to admins.
C7_LoanSelectIffOwnerOrAdmin ==
    \A u \in Callers, l \in LoanIds :
        loans[l].exists =>
            (can_select("loans", u, loans[l].user_id)
                <=> (loans[l].user_id = u \/ IsAdminRow(u)))

\* C8: a payment row is inserted through the data API only by an admin.
C8_PaymentInsertOnlyByAdmin ==
    [][(req'.role # "postgres" /\ payments' # payments) => IsAdminRow(req'.uid)]_vars

\* C9: reading a payment is allowed exactly to admins and to the owner of
\* the loan the payment refers to.
C9_PaymentSelectIffLoanOwnerOrAdmin ==
    \A u \in Callers, p \in PaymentIds :
        payments[p].exists =>
            (can_select("payments", u, payments[p].loan_id)
                <=> (\/ IsAdminRow(u)
                     \/ \E l \in LoanIds :
                            /\ loans[l].exists
                            /\ l = payments[p].loan_id
                            /\ loans[l].user_id = u))

\* C10: inserting an activity record for owner o is allowed exactly to o and
\* to admins.
C10_ActivityInsertIffOwnerOrAdmin ==
    \A c \in Callers, o \in Users :
        can_insert("activity_log", c, o) <=> (c = o \/ IsAdminRow(c))

\* C11: an identity that is not an admin is denied every update of a loan
\* it does not own, under every installed policy set; the decision does not
\* look at the columns the update writes.
C11_NonOwnerNonAdminUpdateDenied ==
    \A u \in Users, l \in LoanIds :
        (loans[l].exists /\ loans[l].user_id # u /\ ~IsAdminRow(u))
            => ~can_update("loans", u, loans[l].user_id)

\* C11, its case: a loans UPDATE policy is installed, every loan belongs to
\* someone else, and the update of an identity that is not an admin wrote
\* no row.
C11_StrangerUpdateWroteNothing ==
    \E u \in Users :
        /\ ~IsAdminRow(u)
        /\ installed \cap {"fix-infinite-recursion", "final-admin-fix"} # {}
        /\ \A l \in LoanIds : loans[l].exists /\ loans[l].user_id # u
        /\ req = ApiContext(u, "loans", "UPDATE", "none")

\* C12: a request that carries no session is denied every select, insert
\* and update on profiles, loans, payments and activity_log, under every
\* installed policy set and for every value of the compared column, NULL
\* included.
C12_AnonymousDeniedEverywhere ==
    \A tbl \in Tables, cmd \in {"SELECT", "INSERT", "UPDATE"},
       key \in Callers \cup LoanIds \cup {NullLoan} :
        ~Allowed(tbl, cmd, Anon, key)

\* C12, its case: with policies of fix-infinite-recursion.sql or
\* final-admin-fix.sql installed and a loan to pay for, an insert into
\* payments without a session ended in an error.
C12_AnonymousInsertRefused ==
    /\ installed \cap {"fix-infinite-recursion", "final-admin-fix"} # {}
    /\ \E l \in LoanIds : loans[l].exists
    /\ req = ApiContext(Anon, "payments", "INSERT", "error")

\* C13: is_admin_user(id) is true exactly when a profile row with that id
\* has is_admin = TRUE; without a row, with a NULL flag and for the NULL id
\* it is false (the function is total: it has no failing branch).
C13_ResolverTrueIffAdminRow ==
    \A id \in Callers : is_admin_user(id) <=> IsAdminRow(id)

\* C13, its case: under the policies of fix-infinite-recursion.sql an
\* identity whose flag is NULL asked to insert the profile of an identity
\* that has none, and was refused: the resolver answered false for it.
C13_NullFlagResolvedFalse ==
    \E u, v \in Users :
        /\ ~profiles[u].exists
        /\ profiles[v].exists
        /\ profiles[v].is_admin = "NULL"
        /\ installed = {"fix-infinite-recursion"}
        /\ req = ApiContext(v, "profiles", "INSERT", "error")

\* C14: under every installed policy set, no select, insert or update check
\* on any of the four tables re-enters the policies of a table it is
\* already expanding.
C14_NoPolicyRecursion ==
    \A tbl \in Tables, cmd \in {"SELECT", "INSERT", "UPDATE"}, caller \in Callers :
        ~Recurses(tbl, cmd, caller, {})

\* C15: in every reachable state the profiles table holds at most one row
\* per identity id, whatever the order of profile saves, createAdminProfile
\* inserts and bootstrap statements.
C15_OneProfilePerIdentity ==
    \A id \in Users : profiles[id].rows <= 1

\* C15, its case: an identity that has a profile, and whom the policies let
\* insert its own row, was provisioned a second time: the insert ended in
\* an error, or the profile form was saved over a row made as admin, or
\* the bootstrap statement found the row; and there is one row.
C15_ProvisionedTwice ==
    \E id \in Users :
        /\ profiles[id].rows = 1
        /\ can_insert("profiles", id, id)
        /\ \/ req = ApiContext(id, "profiles", "INSERT", "error")
           \/ req = ApiContext(id, "profiles", "UPSERT", "ok") /\ profiles[id].is_admin = "TRUE"
           \/ req = [EditorContext(id, "profiles", "UPSERT") EXCEPT !.result = "none"]

C17_NoAdminRowByNonAdminInsert ==
    [][(req'.role # "postgres" /\ req'.cmd = "INSERT" /\ ~IsAdminRow(req'.uid))
          => \A id \in Users :
                (~profiles[id].exists /\ profiles'[id].exists)
                    => profiles'[id].is_admin # "TRUE"]_vars

\* C18: the app never sends createAdminProfile's insert for a caller whose
\* profile row does not already say admin.
C18_CreateAdminProfileOnlyForAdmins ==
    [][(req'.role = "authenticated" /\ req'.tbl = "profiles" /\ req'.cmd = "INSERT")
          => IsAdminRow(req'.uid)]_vars

\* C20: when the query of checkAdminStatus comes back with an error, the
\* device holds isAdmin = false afterwards.
C20_AdminCheckErrorLeavesNotAdmin ==
    [][\A s \in Sessions, r \in AdminAnswers :
          (/\ r \in inflight[s]
           /\ inflight'[s] = inflight[s] \ {r}
           /\ r.outcome = "error")
              => ~isAdmin'[s]]_vars

Admins == { u \in Users : IsAdminRow(u) }

\* C19: a run of final-admin-fix.sql that is not the first, with nothing
\* but sign-ups and profile saves since, leaves the set of admin profiles
\* as the run before left it.
C19_SecondBootstrapKeepsAdmins ==
    [][(/\ "final-admin-fix" \in installed
        /\ req'.role = "postgres"
        /\ req'.cmd = "POLICY")
          => Admins' = Admins]_vars

\* C21: a handleLoanAction whose update of the loan wrote no row (denied
\* by the policies, or an error) stops there: it does not go on to the
\* activity entry and the success message.
C21_DeniedUpdateReportsFailure ==
    [][\A s \in Sessions :
          (/\ pc[s] = "idle"
           /\ req'.role = "authenticated"
           /\ req'.uid = session[s]
           /\ req'.tbl = "loans"
           /\ req'.cmd = "UPDATE"
           /\ req'.result # "ok")
             => pc'[s] = "idle"]_vars

\* C22: the activity log is append-only: every step, by any caller
\* through the data API or by the operator's scripts, leaves every record
\* there is in its place with its fields, so the log only grows.
C22_ActivityLogAppendOnly ==
    [][/\ Len(activity_log') >= Len(activity_log)
       /\ \A i \in 1..Len(activity_log) : activity_log'[i] = activity_log[i]]_vars

\* an admin asked to change or delete a record of the log, and the
\* statement wrote no row
C22_AdminChangeOfRecordWroteNothing ==
    /\ req.role = "authenticated"
    /\ IsAdminRow(req.uid)
    /\ req.tbl = "activity_log"
    /\ req.cmd \in {"UPDATE", "DELETE"}
    /\ req.result = "none"
    /\ Len(activity_log) > 0

\* C23: a loan row inserted by a caller who is not an admin starts with
\* status pending and belongs to the caller.
C23_NewLoanPendingAndOwn ==
    [][(/\ req'.role # "postgres"
        /\ req'.tbl = "loans"
        /\ req'.cmd = "INSERT"
        /\ ~IsAdminRow(req'.uid))
          => \A l \in LoanIds :
                (~loans[l].exists /\ loans'[l].exists)
                   => (loans'[l].status = "pending" /\ loans'[l].user_id = req'.uid)]_vars

\* the condition of the loan form: the amount and the monthly income are
\* numbers, 0 < amount <= 500000, monthly income > 0, amount <= 5 x income
ValidApplication(amountText, incomeText) ==
    LET amount == parseFloat(amountText)
        monthlyIncome == parseFloat(incomeText)
    IN  /\ ~amount.nan
        /\ ~monthlyIncome.nan
        /\ Gt(amount, Num(0))
        /\ Le(amount, Num(MaxLoanAmount))
        /\ Gt(monthlyIncome, Num(0))
        /\ Le(amount, Times(monthlyIncome, IncomeMultiple))

\* C24: submitLoanApplication writes a loan row or an activity record
\* only for a form whose amount and monthly income satisfy the condition
\* of the form.
C24_LoanOnlyFromValidForm ==
    [][\A s \in Sessions :
          (/\ account[s].loan.pc # "idle"
           /\ (loans' # loans \/ activity_log' # activity_log))
             => ValidApplication(account[s].loan.amount, account[s].loan.monthlyIncome)]_vars

MinCreditScore == 300
MaxCreditScore == 850

\* C25: the credit score of every profile there is lies within 300..850.
C25_CreditScoreInRange ==
    \A u \in Users :
        profiles[u].exists =>
            (profiles[u].credit_score >= MinCreditScore /\ profiles[u].credit_score <= MaxCreditScore)

\* C26: when a device's session passes to a user, App shows that user
\* the AdminDashboard (isAdmin true) only if the user's profile has
\* is_admin = TRUE: what was found out for an earlier session does not
\* open the dashboard to the next user.
C26_NoDashboardFromEarlierSession ==
    [][\A s \in Sessions :
          (/\ session'[s] \in Users
           /\ session'[s] # session[s]
           /\ isAdmin'[s])
             => IsAdminRow(session'[s])]_vars

\* C27: a handleLoanAction approve or reject by an admin on a pending
\* loan of another identity, whose update raised no error, leaves the
\* loan approved or rejected.
C27_AdminDecidesAnyPendingLoan ==
    [][\A s \in Sessions, l \in LoanIds :
          (/\ pc[s] = "idle"
           /\ pc'[s] = "log"
           /\ cur'[s].loanId = l
           /\ cur'[s].action \in {"approve", "reject"}
           /\ IsAdminRow(session[s])
           /\ loans[l].exists
           /\ loans[l].status = "pending"
           /\ loans[l].user_id # session[s])
             => loans'[l].status = StatusOf(cur'[s].action)]_vars

\* the step appended exactly one record to the log, owned by owner
AppendedRecordOf(owner) ==
    /\ Len(activity_log') = Len(activity_log) + 1
    /\ SubSeq(activity_log', 1, Len(activity_log)) = activity_log
    /\ activity_log'[Len(activity_log')].user_id = owner

\* C28: a handleLoanAction or submitLoanApplication that gets to its
\* success message has written exactly one activity record, owned by the
\* owner of the loan.
C28_SuccessLeavesActivityRecord ==
    [][\A s \in Sessions :
          /\ (pc[s] = "log" /\ pc'[s] = "reload") => AppendedRecordOf(cur[s].user_id)
          /\ (account[s].loan.pc = "log" /\ account'[s].loan.pc = "idle")
                => AppendedRecordOf(session[s])]_vars

\* C29: approval_date holds a clock reading taken by an approve or a
\* reject, never one taken by a disburse or a complete, and
\* disbursement_date holds one taken by a disburse.
C29_ApprovalDateOnlyByDecision ==
    \A l \in LoanIds :
        loans[l].exists =>
            /\ loans[l].approval_date \in {"NULL", "approve", "reject"}
            /\ loans[l].disbursement_date \in {"NULL", "disburse"}

\* C30: while a saveProfile or submitLoanApplication request of a device
\* is in flight its uploading flag is true, and no second save is in
\* flight with the first.
C30_UploadingWhileInFlight ==
    \A s \in Sessions :
        /\ (account[s].saves > 0 \/ account[s].loan.pc # "idle") => uploading[s]
        /\ account[s].saves <= 1

====
